---- MODULE Spec2Model ----
(***************************************************************************)
(* Model of the snapshot recorder (src/src/recorder.py): the persistence   *)
(* store shared through one connection handle, the periodic recording loop *)
(* run(), the streaming ingestor connect_market_stream(), and the pure     *)
(* snapshot builders and streaming decoders.                               *)
(*                                                                         *)
(* One step of the model is one uninterrupted stretch of a coroutine: the  *)
(* code between two awaits.  Every `await self._db.execute(...)`,          *)
(* `await self._db.commit()`, `await ws.send(...)`, the wait for the next  *)
(* inbound message and every `asyncio.sleep` is a point where the other    *)
(* coroutine may run.                                                      *)
(***************************************************************************)
EXTENDS Integers, Sequences, FiniteSets, TLC

\* ------------------------------------------------------------------ bounds
\* save calls one caller (the recording loop, a direct caller) makes in one
\* behaviour
MaxCalls == 1
\* rows of one batch (levels of a book, nested changes of a price_change)
MaxBatch == 2
\* inbound stream messages in one behaviour
MaxMessages == 2
\* connection attempts in one behaviour
MaxConnections == 2
\* markets of one catalog response
MaxMarkets == 1

\* `await asyncio.sleep(5)` of the reconnect loop
BackoffSeconds == 5

VARIABLES
    db,          \* self._db is set (a connection is open)
    pending,     \* rows executed on the connection and not yet committed
    committed,   \* rows committed to the database file
    calls,       \* the save calls that reached the store, in call order
    running,     \* self._running
    run_pc, run_markets, run_call, run_k,
    run_ret,     \* how the last record_once() call of run() ended
    ws_pc, ws_tokens, ws_msg, ws_call, ws_k, ws_log, stats,
    ws_sent, ws_conns, ws_msgs, ws_timer, ws_end,
    api_pc, api_op, api_n, api_call, api_k, api_db, api_result,
    arg, ret,    \* argument and result of a builder or decoder under test
    shutdown_event  \* the script's shutdown_event is set

store_vars == <<db, pending, committed, calls>>
run_vars == <<run_pc, run_markets, run_call, run_k, run_ret>>
ws_vars == <<ws_pc, ws_tokens, ws_msg, ws_call, ws_k, ws_log, stats,
             ws_sent, ws_conns, ws_msgs, ws_timer, ws_end>>
api_vars == <<api_pc, api_op, api_n, api_call, api_k, api_db, api_result>>
fn_vars == <<arg, ret>>
vars == <<store_vars, running, run_vars, ws_vars, api_vars, fn_vars,
          shutdown_event>>

\* ------------------------------------------------------------ loose values
\* A JSON value as the decoders see it: absent/None, a number, a string that
\* float() accepts, the empty string, or a string float() rejects.  Numbers
\* are held in thousandths.
Absent == [t |-> "none", v |-> 0]
Num(x) == [t |-> "num", v |-> x]
NumStr(x) == [t |-> "numstr", v |-> x]
EmptyStr == [t |-> "emptystr", v |-> 0]
BadStr == [t |-> "badstr", v |-> 0]

\* Python truthiness of a JSON value: None, 0 and "" are false.
Truthy(x) ==
    CASE x.t = "none" -> FALSE
      [] x.t = "num" -> x.v # 0
      [] x.t = "emptystr" -> FALSE
      [] OTHER -> TRUE

\* float(x) succeeds on numbers and numeric strings, raises on the rest.
FloatOk(x) == x.t \in {"num", "numstr"}
Float(x) == x.v

\* ------------------------------------------------------------------ models
\* Outcome labels as upstream sends them, and str.lower() on them.
Labels == {"Yes", "yes", "YES", "No", "no", "Up"}
Lower(label) ==
    CASE label \in {"Yes", "yes", "YES"} -> "yes"
      [] label \in {"No", "no"} -> "no"
      [] OTHER -> "up"

\* Token(token_id, outcome, price); prices in thousandths
Token(token_id, outcome, price) ==
    [token_id |-> token_id, outcome |-> outcome, price |-> price]

\* Market: the fields the snapshot builders read
Market(market_id, tokens) == [market_id |-> market_id, tokens |-> tokens]

MarketSnapshot(market_id, yes_price, no_price) ==
    [market_id |-> market_id, yes_price |-> yes_price, no_price |-> no_price]

OutcomeSnapshot(market_id, outcome, price, token_id) ==
    [market_id |-> market_id, outcome |-> outcome, price |-> price,
     token_id |-> token_id]

MaxOf(S) == CHOOSE x \in S : \A y \in S : y <= x

\* The inner loop of create_snapshots: the price starts at 0.0 and every token
\* whose lowered label matches overwrites it, so the last match wins.
LabelPrice(tokens, label) ==
    LET hits == {i \in 1..Len(tokens) : Lower(tokens[i].outcome) = label}
    IN  IF hits = {} THEN 0 ELSE tokens[MaxOf(hits)].price

\* `if len(market.tokens) == 2 and yes_price > 0`
EmitsMarketSnapshotMutant(market) ==
    Len(market.tokens) >= 2 /\ LabelPrice(market.tokens, "yes") > 0
EmitsMarketSnapshot(market) ==
    Len(market.tokens) = 2 /\ LabelPrice(market.tokens, "yes") > 0

RECURSIVE create_snapshots(_)
create_snapshots(markets) ==
    IF markets = <<>> THEN <<>>
    ELSE LET market == Head(markets)
             rest == create_snapshots(Tail(markets))
         IN  IF EmitsMarketSnapshot(market)
             THEN <<MarketSnapshot(market.market_id,
                                   LabelPrice(market.tokens, "yes"),
                                   LabelPrice(market.tokens, "no"))>> \o rest
             ELSE rest

\* the inner loop of create_outcome_snapshots: one OutcomeSnapshot per token
OutcomesOfMutant(market) ==
    [i \in 1..(Len(market.tokens) - 1) |->
        OutcomeSnapshot(market.market_id, market.tokens[i].outcome,
                        market.tokens[i].price, market.tokens[i].token_id)]
OutcomesOf(market) ==
    [i \in 1..Len(market.tokens) |->
        OutcomeSnapshot(market.market_id, market.tokens[i].outcome,
                        market.tokens[i].price, market.tokens[i].token_id)]

RECURSIVE create_outcome_snapshots(_)
create_outcome_snapshots(markets) ==
    IF markets = <<>> THEN <<>>
    ELSE LET market == Head(markets)
             rest == create_outcome_snapshots(Tail(markets))
         IN  IF Len(market.tokens) >= 3
             THEN OutcomesOf(market) \o rest
             ELSE rest

\* ---------------------------------------------------------------- decoders
\* _parse_ws_timestamp: absent -> utcnow(); a number -> utcfromtimestamp(ts /
\* 1000), a naive UTC datetime; a string -> fromisoformat(ts.replace("Z",
\* "+00:00")), an offset-aware datetime, or utcnow() when it does not parse.
\* A value of kind "iso" is an ISO-8601 string of the instant v.
Now == [repr |-> "naive", ms |-> 0, now |-> TRUE]
Iso(x) == [t |-> "iso", v |-> x]
_parse_ws_timestamp(ts) ==
    CASE ts.t = "none" -> Now
      [] ts.t = "num" -> [repr |-> "naive", ms |-> ts.v, now |-> FALSE]
      [] ts.t = "iso" -> [repr |-> "aware", ms |-> ts.v, now |-> FALSE]
      [] OTHER -> Now

Nothing == [some |-> FALSE, v |-> 0]
Some(x) == [some |-> TRUE, v |-> x]

\* `float(best_bid) if best_bid else None`
OptFloat(x) == IF Truthy(x) THEN Some(Float(x)) ELSE Nothing
OptFloatRaises(x) == Truthy(x) /\ ~FloatOk(x)

\* change.get("price", 0): an absent key reads as 0
OrZero(x) == IF x.t = "none" THEN Num(0) ELSE x

PriceChangeEvent(timestamp, market_id, change, best_bid, best_ask) ==
    [timestamp |-> timestamp, market_id |-> market_id,
     token_id |-> change.asset_id,
     price |-> Float(OrZero(change.price)),
     size |-> Float(OrZero(change.size)),
     side |-> change.side,
     best_bid |-> OptFloat(best_bid), best_ask |-> OptFloat(best_ask)]

\* Building one event raises when a float() of it raises.
ChangeRaises(message, change) ==
    \/ ~FloatOk(OrZero(change.price))
    \/ ~FloatOk(OrZero(change.size))
    \/ OptFloatRaises(message.best_bid)
    \/ OptFloatRaises(message.best_ask)

Raised == [status |-> "raise", value |-> <<>>]
Returned(v) == [status |-> "ok", value |-> v]

\* handle_price_change: one event per nested change, in order; the first
\* change whose conversion raises aborts the whole call.
handle_price_change(message) ==
    IF \E i \in 1..Len(message.price_changes) :
           ChangeRaises(message, message.price_changes[i])
    THEN Raised
    ELSE Returned([i \in 1..Len(message.price_changes) |->
             PriceChangeEvent(_parse_ws_timestamp(message.timestamp),
                              message.market, message.price_changes[i],
                              message.best_bid, message.best_ask)])


\* ------------------------------------------------------------------- store
\* The six write operations and the table each INSERTs into.
Ops ==
    {"save_snapshots", "save_outcome_snapshots", "save_orderbook_snapshots",
     "save_trade_snapshots", "save_resolution_snapshots",
     "save_price_change_events"}

TableOf(op) ==
    CASE op = "save_snapshots" -> "market_snapshots"
      [] op = "save_outcome_snapshots" -> "outcome_snapshots"
      [] op = "save_orderbook_snapshots" -> "orderbook_snapshots"
      [] op = "save_trade_snapshots" -> "trade_snapshots"
      [] op = "save_resolution_snapshots" -> "resolution_snapshots"
      [] OTHER -> "price_change_events"

\* The `if not self._db:` guard that opens every save: five operations raise
\* RuntimeError("Database not initialized..."), save_price_change_events
\* returns.
GuardOutcome(op) ==
    IF op = "save_price_change_events" THEN "returned" ELSE "RuntimeError"

\* A row is named by the save call that executed it and its place in the batch.
Row(call, idx) == [call |-> call, idx |-> idx]

NewCall(op, n, by) ==
    Append(calls, [op |-> op, n |-> n, by |-> by, status |-> "active"])
Settle(call, status) == [calls EXCEPT ![call].status = status]
CallsBy(by) == Cardinality({i \in 1..Len(calls) : calls[i].by = by})

\* `await self._db.execute("INSERT ...")`: the row joins the connection's open
\* transaction.
Executed(call, idx) == pending \cup {Row(call, idx)}
\* (a commit that kept only the transaction's own rows)
CommittedMutant == pending
\* `await self._db.commit()`: the connection's open transaction commits, with
\* every row executed on the connection since its last commit.
Committed == committed \cup pending

\* init_db: open the connection (the schema statements write no row)
init_db ==
    /\ ~db
    /\ db' = TRUE
    /\ UNCHANGED <<pending, committed, calls, running, run_vars, ws_vars,
                   api_vars, fn_vars, shutdown_event>>

\* close: closing the connection discards its uncommitted rows
close ==
    /\ db
    /\ db' = FALSE
    /\ pending' = {}
    /\ UNCHANGED <<committed, calls, running, run_vars, ws_vars, api_vars,
                   fn_vars, shutdown_event>>

\* ---------------------------------------------------------- recording loop
Binary == Market("m1", <<Token("t1", "Yes", 600), Token("t2", "No", 400)>>)
Single == Market("m2", <<Token("t3", "Yes", 600)>>)
Triple ==
    Market("m3", <<Token("t4", "Up", 500), Token("t5", "yes", 300),
                   Token("t6", "no", 200)>>)
SampleMarkets == {Binary, Single, Triple}

SeqsUpTo(S, n) == UNION {[1..k -> S] : k \in 0..n}

\* what one catalog fetch may return, after the volume and liquidity filter:
\* up to MaxMarkets markets, or a binary and a three-token market together
FetchResults ==
    SeqsUpTo(SampleMarkets, MaxMarkets) \cup {<<Binary, Triple>>}

\* save calls one cycle over `markets` makes
CycleCalls(markets) ==
    (IF create_snapshots(markets) = <<>> THEN 0 ELSE 1)
    + (IF create_outcome_snapshots(markets) = <<>> THEN 0 ELSE 1)

\* stop
stop ==
    /\ running' = FALSE
    /\ UNCHANGED <<store_vars, run_vars, ws_vars, api_vars,
                   fn_vars, shutdown_event>>

\* the script's signal handler: recorder.stop(), then shutdown_event.set()
handle_signal ==
    /\ running' = FALSE
    /\ shutdown_event' = TRUE
    /\ UNCHANGED <<store_vars, run_vars, ws_vars, api_vars, fn_vars>>

\* how a record_once() call ended: still running, returned a count, raised
InCycle == [status |-> "none", value |-> 0]
CycleReturned(count) == [status |-> "ok", value |-> count]
CycleRaised == [status |-> "raise", value |-> 0]

\* (a run() that leaves the flag as it finds it)
RunEntryFlagMutant == running
\* `self._running = True`, the first statement of run()
RunEntryFlag == TRUE

\* run, up to its first await: set the flag, enter the loop, start the fetch
run ==
    /\ run_pc = "idle"
    /\ running' = RunEntryFlag
    /\ run_pc' = "fetch"
    /\ UNCHANGED <<store_vars, run_markets, run_call, run_k, run_ret,
                   ws_vars, api_vars, fn_vars, shutdown_event>>

\* record_once: fetch_markets returns.  A cycle that writes starts only
\* while the loop has made fewer than MaxCalls save calls.
run_fetch ==
    /\ run_pc = "fetch"
    /\ \E markets \in FetchResults :
        /\ CallsBy("run") < MaxCalls \/ CycleCalls(markets) = 0
        /\ run_markets' = markets
    /\ run_pc' = "market_batch"
    /\ run_ret' = InCycle
    /\ UNCHANGED <<store_vars, running, run_call, run_k, ws_vars, api_vars,
                   fn_vars, shutdown_event>>

\* run: `except Exception as e: logger.error(...)`, then on to the sleep
RunExceptMutant == "done"
RunExcept == "sleep"

\* `return len(market_snapshots)`
ReturnCountMutant(markets) ==
    Len(create_snapshots(markets)) + Len(create_outcome_snapshots(markets))
ReturnCount(markets) == Len(create_snapshots(markets))

\* where record_once goes after a batch, and what run() then holds of it
AfterBatch(op) ==
    IF op = "save_snapshots" THEN "outcome_batch" ELSE "sleep"
RetAfterBatch(op) ==
    IF op = "save_snapshots" THEN InCycle
    ELSE CycleReturned(ReturnCount(run_markets))

\* A batch of record_once: skipped when empty, else the save call up to its
\* first await.  A RuntimeError leaves record_once and is logged by run.
RunBatch(op, n) ==
    IF n = 0
    THEN /\ run_pc' = AfterBatch(op)
         /\ run_ret' = RetAfterBatch(op)
         /\ UNCHANGED <<calls, run_call, run_k>>
    ELSE IF ~db
    THEN /\ run_pc' = RunExcept
         /\ run_ret' = CycleRaised
         /\ UNCHANGED <<calls, run_call, run_k>>
    ELSE /\ calls' = NewCall(op, n, "run")
         /\ run_call' = Len(calls) + 1
         /\ run_k' = 0
         /\ run_pc' = "execute"
         /\ UNCHANGED run_ret

run_market_batch ==
    /\ run_pc = "market_batch"
    /\ RunBatch("save_snapshots", Len(create_snapshots(run_markets)))
    /\ UNCHANGED <<db, pending, committed, running, run_markets, ws_vars,
                   api_vars, fn_vars, shutdown_event>>

run_outcome_batch ==
    /\ run_pc = "outcome_batch"
    /\ RunBatch("save_outcome_snapshots",
                Len(create_outcome_snapshots(run_markets)))
    /\ UNCHANGED <<db, pending, committed, running, run_markets, ws_vars,
                   api_vars, fn_vars, shutdown_event>>

\* one `await self._db.execute(...)` of the batch; with the handle gone the
\* attribute access raises
run_execute ==
    /\ run_pc = "execute"
    /\ IF db
       THEN /\ pending' = Executed(run_call, run_k + 1)
            /\ run_k' = run_k + 1
            /\ run_pc' = IF run_k + 1 = calls[run_call].n
                         THEN "commit" ELSE "execute"
            /\ UNCHANGED <<calls, run_ret>>
       ELSE /\ calls' = Settle(run_call, "failed")
            /\ run_pc' = RunExcept
            /\ run_ret' = CycleRaised
            /\ UNCHANGED <<pending, run_k>>
    /\ UNCHANGED <<db, committed, running, run_markets, run_call, ws_vars,
                   api_vars, fn_vars, shutdown_event>>

\* the INSERT itself fails (a storage error): the save call raises, with no
\* rollback of the rows it executed before
run_execute_fail ==
    /\ run_pc = "execute"
    /\ db
    /\ calls' = Settle(run_call, "failed")
    /\ run_pc' = RunExcept
    /\ run_ret' = CycleRaised
    /\ UNCHANGED <<db, pending, committed, running, run_markets, run_call,
                   run_k, ws_vars, api_vars, fn_vars, shutdown_event>>

run_commit ==
    /\ run_pc = "commit"
    /\ IF db
       THEN /\ committed' = Committed
            /\ pending' = {}
            /\ calls' = Settle(run_call, "ok")
            /\ run_pc' = AfterBatch(calls[run_call].op)
            /\ run_ret' = RetAfterBatch(calls[run_call].op)
       ELSE /\ calls' = Settle(run_call, "failed")
            /\ run_pc' = RunExcept
            /\ run_ret' = CycleRaised
            /\ UNCHANGED <<pending, committed>>
    /\ UNCHANGED <<db, running, run_markets, run_call, run_k, ws_vars,
                   api_vars, fn_vars, shutdown_event>>

\* `await asyncio.sleep(self.interval_seconds)` returns; `while self._running`
run_sleep ==
    /\ run_pc = "sleep"
    /\ run_pc' = IF running THEN "fetch" ELSE "done"
    /\ UNCHANGED <<store_vars, running, run_markets, run_call, run_k,
                   run_ret, ws_vars, api_vars, fn_vars, shutdown_event>>


\* ------------------------------------------------------- streaming ingestor
\* An inbound frame: text that json.loads rejects ("invalid"), JSON that is
\* not an object ("array"), or an object with the fields the handlers read.
Level(price, size) == [price |-> price, size |-> size]
Change(asset_id, price, size) ==
    [asset_id |-> asset_id, price |-> price, size |-> size, side |-> "BUY"]
Message(raw, event_type, bids, asks, price, best_bid, price_changes) ==
    [raw |-> raw, event_type |-> event_type, market |-> "m1",
     timestamp |-> Num(1700), bids |-> bids, asks |-> asks,
     price |-> price, size |-> NumStr(10),
     best_bid |-> best_bid, best_ask |-> NumStr(520),
     price_changes |-> price_changes]
NoMessage == Message("none", "", <<>>, <<>>, Absent, Absent, <<>>)

Levels(n, price) == [i \in 1..n |-> Level(price, NumStr(10))]
Changes(n, price) == [i \in 1..n |-> Change("t1", price, NumStr(10))]

StreamMessages ==
    {Message("invalid", "", <<>>, <<>>, Absent, Absent, <<>>),
     Message("array", "", <<>>, <<>>, Absent, Absent, <<>>),
     Message("object", "tick_size_change", <<>>, <<>>, Absent, Absent, <<>>),
     Message("object", "last_trade_price", <<>>, <<>>, NumStr(500), Absent, <<>>),
     Message("object", "last_trade_price", <<>>, <<>>, BadStr, Absent, <<>>),
     Message("object", "book", <<Level(BadStr, NumStr(10))>>, <<>>, Absent,
             Absent, <<>>)}
    \cup {Message("object", "book", Levels(b, NumStr(480)),
                  Levels(a, NumStr(520)), Absent, Absent, <<>>) :
            b \in 0..1, a \in 0..(MaxBatch - 1)}
    \cup {Message("object", "price_change", <<>>, <<>>, Absent, NumStr(480),
                  Changes(n, NumStr(500))) : n \in 0..MaxBatch}
    \cup {Message("object", "price_change", <<>>, <<>>, Absent, NumStr(480),
                  Changes(1, BadStr))}

\* token-identifier lists the ingestor may be started with
TokenLists == {<<"t1">>, <<"t1", "t2">>}

\* subscribe_msg = {"type": "Market", "assets_ids": token_ids}
SubscribeMsgMutant(token_ids) ==
    [type |-> "Market", assets_ids |-> <<Head(token_ids)>>]
SubscribeMsg(token_ids) == [type |-> "Market", assets_ids |-> token_ids]

\* handle_trade_message: float(price), float(size)
TradeRaises(m) == ~FloatOk(OrZero(m.price)) \/ ~FloatOk(OrZero(m.size))

\* the book branch: float(price), float(size) of every bid, then every ask
BookRaises(m) ==
    \E l \in {m.bids[i] : i \in 1..Len(m.bids)}
             \cup {m.asks[i] : i \in 1..Len(m.asks)} :
        ~FloatOk(OrZero(l.price)) \/ ~FloatOk(OrZero(l.size))

\* the if/elif chain on event_type: "" stands for the final else
KnownKind(m) ==
    IF m.event_type \in {"book", "price_change", "last_trade_price"}
    THEN m.event_type ELSE ""

\* the save operation each branch calls
BranchOpMutant(kind) ==
    CASE kind = "book" -> "save_orderbook_snapshots"
      [] kind = "price_change" -> "save_price_change_events"
      [] OTHER -> "save_orderbook_snapshots"
BranchOp(kind) ==
    CASE kind = "book" -> "save_orderbook_snapshots"
      [] kind = "price_change" -> "save_price_change_events"
      [] OTHER -> "save_trade_snapshots"

\* (a dispatch without the `and self._db` test of the three branches)
BranchMutant(m, store) ==
    LET kind == KnownKind(m)
        events == handle_price_change(m)
        n == CASE kind = "book" -> Len(m.bids) + Len(m.asks)
               [] kind = "price_change" -> Len(events.value)
               [] kind = "last_trade_price" -> 1
               [] OTHER -> 0
        raises == CASE kind = "book" -> BookRaises(m)
                    [] kind = "price_change" -> events.status = "raise"
                    [] kind = "last_trade_price" -> TradeRaises(m)
                    [] OTHER -> FALSE
        key == IF kind = "" THEN "other" ELSE kind
        inc == IF kind = "price_change" THEN n ELSE 1
    IN  [path |-> IF raises THEN "error"
                  ELSE IF kind # "" /\ n > 0 THEN "save"
                  ELSE "count",
         op |-> BranchOp(kind), n |-> n, key |-> key, inc |-> inc]
\* The body of the inner try for a decoded object, up to its first await:
\*   path "error":  a handler raised, caught by `except Exception`
\*   path "save":   the branch built `n` records and calls `op`
\*   path "count":  nothing to save, the branch's counter moves by `inc`
Branch(m, store) ==
    LET kind == KnownKind(m)
        events == handle_price_change(m)
        n == CASE kind = "book" -> Len(m.bids) + Len(m.asks)
               [] kind = "price_change" -> Len(events.value)
               [] kind = "last_trade_price" -> 1
               [] OTHER -> 0
        raises == CASE kind = "book" -> BookRaises(m)
                    [] kind = "price_change" -> events.status = "raise"
                    [] kind = "last_trade_price" -> TradeRaises(m)
                    [] OTHER -> FALSE
        key == IF kind = "" THEN "other" ELSE kind
        inc == IF kind = "price_change" THEN n ELSE 1
    IN  [path |-> IF raises THEN "error"
                  ELSE IF kind # "" /\ n > 0 /\ store THEN "save"
                  ELSE "count",
         op |-> BranchOp(kind), n |-> n, key |-> key, inc |-> inc]

\* json.loads and data.get("event_type", ""): text that is no JSON is logged
\* as invalid, JSON that is no object raises on .get and is logged as an error
DecodeMutant(m) ==
    CASE m.raw = "array" -> "error"
      [] OTHER -> "object"
Decode(m) ==
    CASE m.raw = "invalid" -> "invalid_json"
      [] m.raw = "array" -> "error"
      [] OTHER -> "object"

StatKeys == {"book", "price_change", "last_trade_price", "other"}
Counted(key, inc) == [stats EXCEPT ![key] = @ + inc]

\* `while self._running:` of the reconnect loop
LoopCheckMutant == "connecting"
LoopCheck == IF running THEN "connecting" ELSE "done"

\* `await asyncio.sleep(5)` has returned
BackoffElapsedMutant(t) == TRUE
BackoffElapsed(t) == t >= BackoffSeconds

\* connect_market_stream, up to its first await
connect_market_stream ==
    /\ ws_pc = "idle"
    /\ \E token_ids \in TokenLists : ws_tokens' = token_ids
    /\ stats' = [k \in StatKeys |-> 0]
    /\ ws_pc' = LoopCheck
    /\ ws_conns' = IF LoopCheck = "connecting" THEN 1 ELSE 0
    /\ UNCHANGED <<store_vars, running, run_vars, ws_msg, ws_call, ws_k,
                   ws_log, ws_sent, ws_msgs, ws_timer, ws_end,
                   api_vars, fn_vars, shutdown_event>>

\* websockets.connect succeeds: build subscribe_msg, start ws.send
ws_connected ==
    /\ ws_pc = "connecting"
    /\ ws_pc' = "subscribing"
    /\ ws_sent' = <<>>
    /\ ws_log' = <<>>
    /\ UNCHANGED <<store_vars, running, run_vars, ws_tokens, ws_msg, ws_call,
                   ws_k, stats, ws_conns, ws_msgs, ws_timer, ws_end,
                   api_vars, fn_vars, shutdown_event>>

\* websockets.connect raises: `except Exception`, sleep 5
ws_connect_error ==
    /\ ws_pc = "connecting"
    /\ ws_conns < MaxConnections
    /\ ws_pc' = "backoff"
    /\ ws_timer' = 0
    /\ ws_end' = "connect_failed"
    /\ UNCHANGED <<store_vars, running, run_vars, ws_tokens, ws_msg, ws_call,
                   ws_k, ws_log, stats, ws_sent, ws_conns,
                   ws_msgs, api_vars, fn_vars, shutdown_event>>

\* ws.send returns: the subscription is on the wire
ws_subscribed ==
    /\ ws_pc = "subscribing"
    /\ ws_sent' = Append(ws_sent, SubscribeMsg(ws_tokens))
    /\ ws_pc' = "receiving"
    /\ UNCHANGED <<store_vars, running, run_vars, ws_tokens, ws_msg, ws_call,
                   ws_k, ws_log, stats, ws_conns, ws_msgs,
                   ws_timer, ws_end, api_vars, fn_vars, shutdown_event>>

\* ws.send raises: the connection failed while subscribing
ws_send_error ==
    /\ ws_pc = "subscribing"
    /\ ws_conns < MaxConnections
    /\ ws_pc' = "backoff"
    /\ ws_timer' = 0
    /\ ws_end' = "error"
    /\ UNCHANGED <<store_vars, running, run_vars, ws_tokens, ws_msg, ws_call,
                   ws_k, ws_log, stats, ws_sent, ws_conns,
                   ws_msgs, api_vars, fn_vars, shutdown_event>>

\* `async for message in ws` yields a message: the flag check, then the inner
\* try up to its first await.  ws_log holds, for the messages this connection
\* has finished with, which line of the handler ended each.
ws_message ==
    /\ ws_pc = "receiving"
    /\ ws_msgs < MaxMessages
    /\ \E m \in StreamMessages :
        LET b == Branch(m, db) IN
        /\ ws_msgs' = ws_msgs + 1
        /\ IF ~running
           THEN /\ ws_pc' = "closing"
                /\ ws_end' = "stopped"
                /\ ws_timer' = 0
                /\ UNCHANGED <<calls, ws_msg, ws_call, ws_k, ws_log, stats>>
           ELSE /\ ws_msg' = m
                /\ ws_k' = 0
                /\ UNCHANGED <<ws_end, ws_timer>>
                /\ IF Decode(m) # "object"
                   THEN /\ ws_log' = Append(ws_log, Decode(m))
                        /\ ws_call' = 0
                        /\ ws_pc' = "receiving"
                        /\ UNCHANGED <<calls, stats>>
                   ELSE IF b.path = "error"
                   THEN /\ ws_log' = Append(ws_log, "error")
                        /\ ws_call' = 0
                        /\ ws_pc' = "receiving"
                        /\ UNCHANGED <<calls, stats>>
                   ELSE IF b.path = "count"
                   THEN /\ ws_log' = Append(ws_log, "counted")
                        /\ ws_call' = 0
                        /\ stats' = Counted(b.key, b.inc)
                        /\ ws_pc' = "receiving"
                        /\ UNCHANGED calls
                   ELSE /\ calls' = NewCall(b.op, b.n, "ws")
                        /\ ws_call' = Len(calls) + 1
                        /\ ws_pc' = "execute"
                        /\ UNCHANGED <<stats, ws_log>>
    /\ UNCHANGED <<db, pending, committed, running, run_vars, ws_tokens,
                   ws_sent, ws_conns, api_vars, fn_vars, shutdown_event>>

\* one `await self._db.execute(...)` of the handler's save call
ws_execute ==
    /\ ws_pc = "execute"
    /\ IF db
       THEN /\ pending' = Executed(ws_call, ws_k + 1)
            /\ ws_k' = ws_k + 1
            /\ ws_pc' = IF ws_k + 1 = calls[ws_call].n
                        THEN "commit" ELSE "execute"
            /\ UNCHANGED <<calls, ws_log>>
       ELSE /\ calls' = Settle(ws_call, "failed")
            /\ ws_log' = Append(ws_log, "error")
            /\ ws_pc' = "receiving"
            /\ UNCHANGED <<pending, ws_k>>
    /\ UNCHANGED <<db, committed, running, run_vars, ws_tokens, ws_msg,
                   ws_call, stats, ws_sent, ws_conns, ws_msgs,
                   ws_timer, ws_end, api_vars, fn_vars, shutdown_event>>

\* the INSERT fails: the save call raises into `except Exception`
ws_execute_fail ==
    /\ ws_pc = "execute"
    /\ db
    /\ calls' = Settle(ws_call, "failed")
    /\ ws_log' = Append(ws_log, "error")
    /\ ws_pc' = "receiving"
    /\ UNCHANGED <<db, pending, committed, running, run_vars, ws_tokens,
                   ws_msg, ws_call, ws_k, stats, ws_sent, ws_conns,
                   ws_msgs, ws_timer, ws_end, api_vars,
                   fn_vars, shutdown_event>>

\* the save call's commit, then the branch's counter
ws_commit ==
    /\ ws_pc = "commit"
    /\ IF db
       THEN /\ committed' = Committed
            /\ pending' = {}
            /\ calls' = Settle(ws_call, "ok")
            /\ ws_log' = Append(ws_log, "counted")
            /\ stats' = Counted(Branch(ws_msg, TRUE).key,
                                Branch(ws_msg, TRUE).inc)
       ELSE /\ calls' = Settle(ws_call, "failed")
            /\ ws_log' = Append(ws_log, "error")
            /\ UNCHANGED <<pending, committed, stats>>
    /\ ws_pc' = "receiving"
    /\ UNCHANGED <<db, running, run_vars, ws_tokens, ws_msg, ws_call, ws_k,
                   ws_sent, ws_conns, ws_msgs, ws_timer, ws_end,
                   api_vars, fn_vars, shutdown_event>>

\* the peer closes the connection normally: `async for` ends without raising
ws_closed_ok ==
    /\ ws_pc = "receiving"
    /\ ws_conns < MaxConnections
    /\ ws_pc' = "closing"
    /\ ws_end' = "clean"
    /\ ws_timer' = 0
    /\ UNCHANGED <<store_vars, running, run_vars, ws_tokens, ws_msg, ws_call,
                   ws_k, ws_log, stats, ws_sent, ws_conns,
                   ws_msgs, api_vars, fn_vars, shutdown_event>>

\* the connection drops: `async for` raises ConnectionClosedError into the
\* outer `except Exception`, sleep 5
ws_closed_error ==
    /\ ws_pc = "receiving"
    /\ ws_conns < MaxConnections
    /\ ws_pc' = "backoff"
    /\ ws_end' = "error"
    /\ ws_timer' = 0
    /\ UNCHANGED <<store_vars, running, run_vars, ws_tokens, ws_msg, ws_call,
                   ws_k, ws_log, stats, ws_sent, ws_conns,
                   ws_msgs, api_vars, fn_vars, shutdown_event>>

\* the `async with` block is left (the read loop ended or broke): back to
\* `while self._running`
ws_exit ==
    /\ ws_pc = "closing"
    /\ ws_pc' = LoopCheck
    /\ ws_conns' = IF LoopCheck = "connecting" THEN ws_conns + 1 ELSE ws_conns
    /\ UNCHANGED <<store_vars, running, run_vars, ws_tokens, ws_msg, ws_call,
                   ws_k, ws_log, stats, ws_sent, ws_msgs,
                   ws_timer, ws_end, api_vars, fn_vars, shutdown_event>>

\* the backoff sleep returns: back to `while self._running`
ws_backoff_done ==
    /\ ws_pc = "backoff"
    /\ BackoffElapsed(ws_timer)
    /\ ws_pc' = LoopCheck
    /\ ws_conns' = IF LoopCheck = "connecting" THEN ws_conns + 1 ELSE ws_conns
    /\ UNCHANGED <<store_vars, running, run_vars, ws_tokens, ws_msg, ws_call,
                   ws_k, ws_log, stats, ws_sent, ws_msgs,
                   ws_timer, ws_end, api_vars, fn_vars, shutdown_event>>

\* one second of `await asyncio.sleep(5)` passes; ws_timer counts the seconds
\* slept since the last connection ended
tick ==
    /\ ws_pc = "backoff"
    /\ ws_timer < BackoffSeconds
    /\ ws_timer' = ws_timer + 1
    /\ UNCHANGED <<store_vars, running, run_vars, ws_pc, ws_tokens, ws_msg,
                   ws_call, ws_k, ws_log, stats, ws_sent, ws_conns, ws_msgs, ws_end, api_vars,
                   fn_vars, shutdown_event>>


\* ------------------------------------------------------------ direct caller
\* A caller of the store's write operations: one save call at a time, with a
\* batch of api_n records.
BatchSizes == 0..MaxBatch

\* a save call, from the call to its first await
save ==
    /\ api_pc = "ready"
    /\ CallsBy("api") < MaxCalls
    /\ \E op \in Ops, n \in BatchSizes :
        /\ api_op' = op
        /\ api_n' = n
        /\ api_db' = db
        /\ api_k' = 0
        /\ IF ~db
           THEN /\ api_result' = GuardOutcome(op)
                /\ api_pc' = "returned"
                /\ UNCHANGED <<calls, api_call>>
           ELSE /\ api_result' = "none"
                /\ calls' = NewCall(op, n, "api")
                /\ api_call' = Len(calls) + 1
                /\ api_pc' = IF n = 0 THEN "commit" ELSE "execute"
    /\ UNCHANGED <<db, pending, committed, running, run_vars, ws_vars,
                   fn_vars, shutdown_event>>

save_execute ==
    /\ api_pc = "execute"
    /\ IF db
       THEN /\ pending' = Executed(api_call, api_k + 1)
            /\ api_k' = api_k + 1
            /\ api_pc' = IF api_k + 1 = api_n THEN "commit" ELSE "execute"
            /\ UNCHANGED <<calls, api_result>>
       ELSE /\ calls' = Settle(api_call, "failed")
            /\ api_result' = "error"
            /\ api_pc' = "returned"
            /\ UNCHANGED <<pending, api_k>>
    /\ UNCHANGED <<db, committed, running, run_vars, ws_vars, api_op, api_n,
                   api_call, api_db, fn_vars, shutdown_event>>

save_execute_fail ==
    /\ api_pc = "execute"
    /\ db
    /\ calls' = Settle(api_call, "failed")
    /\ api_result' = "error"
    /\ api_pc' = "returned"
    /\ UNCHANGED <<db, pending, committed, running, run_vars, ws_vars,
                   api_op, api_n, api_call, api_k, api_db,
                   fn_vars, shutdown_event>>

save_commit ==
    /\ api_pc = "commit"
    /\ IF db
       THEN /\ committed' = Committed
            /\ pending' = {}
            /\ calls' = Settle(api_call, "ok")
            /\ api_result' = "ok"
       ELSE /\ calls' = Settle(api_call, "failed")
            /\ api_result' = "error"
            /\ UNCHANGED <<pending, committed>>
    /\ api_pc' = "returned"
    /\ UNCHANGED <<db, running, run_vars, ws_vars, api_op, api_n, api_call,
                   api_k, api_db, fn_vars, shutdown_event>>

\* the caller goes on to its next call
save_return ==
    /\ api_pc = "returned"
    /\ api_pc' = "ready"
    /\ UNCHANGED <<store_vars, running, run_vars, ws_vars, api_op, api_n,
                   api_call, api_k, api_db, api_result,
                   fn_vars, shutdown_event>>

\* ----------------------------------------------------------- pure functions
NotCalled == [status |-> "none", value |-> <<>>]

\* tokens per market of a builder input
MaxTokens == 3

BuildLabels == {"Yes", "YES", "No", "Up"}
BuildPrices == {0, 600}
BuildTokens ==
    {Token("t", outcome, price) : outcome \in BuildLabels, price \in BuildPrices}
BuildMarkets(market_id) ==
    {Market(market_id, tokens) : tokens \in SeqsUpTo(BuildTokens, MaxTokens)}
\* one market of every shape, alone or after one of the sample markets
BuildInputs ==
    {<<m>> : m \in BuildMarkets("m9")}
    \cup {<<s, m>> : s \in {Binary, Triple}, m \in BuildMarkets("m9")}

BidValues == {Absent, Num(0), NumStr(0), Num(480), NumStr(480), EmptyStr}
AskValues == {Absent, NumStr(520)}
TimestampValues == {Absent, Num(1700), NumStr(1700)}
ChangeSamples ==
    {Change("t1", NumStr(500), NumStr(10)), Change("t2", Num(0), Absent),
     Change("t3", BadStr, NumStr(10))}
PriceChangeInputs ==
    {[Message("object", "price_change", <<>>, <<>>, Absent, bid, changes)
        EXCEPT !.best_ask = ask, !.timestamp = ts] :
        bid \in BidValues, ask \in AskValues, ts \in TimestampValues,
        changes \in SeqsUpTo(ChangeSamples, MaxBatch)}

call_create_snapshots ==
    /\ ret.status = "none"
    /\ ret' = Returned(create_snapshots(arg))
    /\ UNCHANGED <<store_vars, running, run_vars, ws_vars, api_vars, arg,
                 shutdown_event>>

call_handle_price_change ==
    /\ ret.status = "none"
    /\ ret' = handle_price_change(arg)
    /\ UNCHANGED <<store_vars, running, run_vars, ws_vars, api_vars, arg,
                 shutdown_event>>

\* ------------------------------------------------------------ specifications
\* the recorder after __init__: no connection, flag false, nothing started
InitObject ==
    /\ db = FALSE
    /\ pending = {}
    /\ committed = {}
    /\ calls = <<>>
    /\ running = FALSE
    /\ run_pc = "idle"
    /\ run_markets = <<>>
    /\ run_call = 0
    /\ run_k = 0
    /\ run_ret = [status |-> "none", value |-> 0]
    /\ ws_pc = "idle"
    /\ ws_tokens = <<>>
    /\ ws_msg = NoMessage
    /\ ws_call = 0
    /\ ws_k = 0
    /\ ws_log = <<>>
    /\ stats = [k \in StatKeys |-> 0]
    /\ ws_sent = <<>>
    /\ ws_conns = 0
    /\ ws_msgs = 0
    /\ ws_timer = 0
    /\ ws_end = "none"
    /\ api_pc = "ready"
    /\ api_op = "save_snapshots"
    /\ api_n = 0
    /\ api_call = 0
    /\ api_k = 0
    /\ api_db = FALSE
    /\ api_result = "none"
    /\ shutdown_event = FALSE

Init ==
    /\ InitObject
    /\ arg = <<>>
    /\ ret = NotCalled

\* Every operation of one recorder: run() and connect_market_stream() side
\* by side, with stop(), init_db() and close() called from outside at any
\* time.  The specifications below each let a part of these operations step,
\* so each of their behaviours is a behaviour of Spec.
Next ==
    \/ init_db
    \/ handle_signal
    \/ close
    \/ stop
    \/ run
    \/ run_fetch
    \/ run_market_batch
    \/ run_outcome_batch
    \/ run_execute
    \/ run_execute_fail
    \/ run_commit
    \/ run_sleep
    \/ connect_market_stream
    \/ ws_connected
    \/ ws_connect_error
    \/ ws_subscribed
    \/ ws_send_error
    \/ ws_message
    \/ ws_execute
    \/ ws_execute_fail
    \/ ws_commit
    \/ ws_closed_ok
    \/ ws_closed_error
    \/ ws_exit
    \/ ws_backoff_done
    \/ tick

Spec == Init /\ [][Next]_vars

\* the store under a direct caller of its write operations
NextStore ==
    \/ init_db
    \/ close
    \/ save
    \/ save_execute
    \/ save_execute_fail
    \/ save_commit
    \/ save_return

SpecStore == Init /\ [][NextStore]_vars

\* create_snapshots on every input of BuildInputs
InitBuild ==
    /\ InitObject
    /\ arg \in BuildInputs
    /\ ret = NotCalled

SpecBuild == InitBuild /\ [][call_create_snapshots]_vars

\* handle_price_change on every input of PriceChangeInputs
InitDecode ==
    /\ InitObject
    /\ arg \in PriceChangeInputs
    /\ ret = NotCalled

SpecDecode == InitDecode /\ [][call_handle_price_change]_vars


\* Both loops writing through the shared handle: the store is opened, run()
\* records and the ingestor persists what it receives on one connection.
NextWrites ==
    \/ init_db
    \/ run
    \/ run_fetch
    \/ run_market_batch
    \/ run_outcome_batch
    \/ run_execute
    \/ run_execute_fail
    \/ run_commit
    \/ run_sleep
    \/ connect_market_stream
    \/ ws_connected
    \/ ws_subscribed
    \/ ws_message
    \/ ws_execute
    \/ ws_execute_fail
    \/ ws_commit

SpecWrites == Init /\ [][NextWrites]_vars

\* The ingestor through connections, failures and reconnects, with run()
\* started (it sets the flag) and stop() and init_db() at any time; close()
\* is what the script calls once both loops have returned.
NextStream ==
    \/ init_db
    \/ stop
    \/ run
    \/ connect_market_stream
    \/ ws_connected
    \/ ws_connect_error
    \/ ws_subscribed
    \/ ws_send_error
    \/ ws_message
    \/ ws_execute
    \/ ws_execute_fail
    \/ ws_commit
    \/ ws_closed_ok
    \/ ws_closed_error
    \/ ws_exit
    \/ ws_backoff_done
    \/ tick

SpecStream == Init /\ [][NextStream]_vars

\* Both loops and stop(), the store left unopened: a cycle with records to
\* save ends in the RuntimeError that run() logs, the ingestor counts what it
\* receives.
NextStop ==
    \/ stop
    \/ run
    \/ run_fetch
    \/ run_market_batch
    \/ run_outcome_batch
    \/ run_sleep
    \/ connect_market_stream
    \/ ws_connected
    \/ ws_connect_error
    \/ ws_subscribed
    \/ ws_send_error
    \/ ws_message
    \/ ws_closed_ok
    \/ ws_closed_error
    \/ ws_exit
    \/ ws_backoff_done
    \/ tick

\* What the event loop and the clock guarantee: a coroutine that can run does
\* run, a fetch returns (its client has a timeout), a connection attempt or a
\* send ends one way or the other, a sleep ends.  Nothing makes the peer send a
\* message or end an open connection.
FairStop ==
    /\ WF_vars(run_fetch)
    /\ WF_vars(run_market_batch)
    /\ WF_vars(run_outcome_batch)
    /\ WF_vars(run_sleep)
    /\ WF_vars(ws_connected \/ ws_connect_error)
    /\ WF_vars(ws_subscribed \/ ws_send_error)
    /\ WF_vars(ws_exit)
    /\ WF_vars(ws_backoff_done)
    /\ WF_vars(tick)

SpecStop == Init /\ [][NextStop]_vars /\ FairStop

\* ------------------------------------------------------------------ claims
\* C1: every write operation called while the store is not initialized
\* signals the store-not-initialized error to its caller and writes no row.
C1_UninitializedWriteRaises ==
    [][(api_pc = "ready" /\ api_pc' # "ready" /\ ~db)
       => (/\ api_result' = "RuntimeError"
           /\ pending' = pending
           /\ committed' = committed
           /\ calls' = calls)]_vars

\* C2: with run() and the ingestor writing side by side, no state has some but
\* not all of the rows of one save call committed.
C2_BatchCommitsAsUnit ==
    \A r \in committed :
        \A j \in 1..calls[r.call].n : Row(r.call, j) \in committed

\* C3: no row of a save call that did not complete successfully is ever
\* committed, a later commit by another save call included.
C3_FailedBatchNeverCommitted ==
    \A r \in committed : calls[r.call].status # "failed"


\* C4 (as claimed): whenever an established connection ends while the flag is
\* true, the next connection attempt starts only after the 5-second backoff.
C4_ReconnectOnlyAfterBackoff ==
    (ws_pc = "connecting" /\ ws_end \in {"clean", "error"})
        => ws_timer >= BackoffSeconds

\* C4 (amended): a connection that fails with an error while subscribing or
\* receiving is followed by a new attempt only after the 5-second backoff, and
\* the ingestor never returns while the flag is true.
C4_ErrorReconnectAfterBackoff ==
    [][/\ (ws_pc' = "connecting" /\ ws_end' = "error")
            => ws_timer' >= BackoffSeconds
       /\ (ws_pc \in {"subscribing", "receiving"} /\ ws_pc' = "backoff")
            => (ws_end' = "error" /\ ws_timer' = 0)
       /\ (ws_pc # "done" /\ ws_pc' = "done") => ~running]_vars

C4_Witness ==
    /\ ws_pc = "connecting"
    /\ ws_end = "error"
    /\ ws_timer = BackoffSeconds
    /\ ws_conns = 2
    /\ running

\* stop() was called with run() started: the flag is false and stays false
Stopped == ~running /\ run_pc # "idle"

\* C5 (as claimed): after stop() with both loops executing, both loops
\* eventually return.
C5_StopEndsBothLoops ==
    (Stopped /\ ws_pc # "idle") ~> (run_pc = "done" /\ ws_pc = "done")

\* C5 (amended): after stop(), run() eventually returns and the ingestor
\* eventually has returned or is waiting for the next inbound message of an
\* open connection; no connection attempt and no recording cycle starts while
\* the flag is false.
C5_StopEndsLoopsUnlessReceiving ==
    /\ (Stopped /\ ws_pc # "idle")
          ~> (run_pc = "done" /\ ws_pc \in {"done", "receiving"})
    /\ [][/\ ~running => ws_conns' = ws_conns
          /\ Stopped => ~(run_pc # "fetch" /\ run_pc' = "fetch")
          /\ (Stopped /\ ws_pc = "receiving" /\ ws_pc' # "receiving")
                => ws_pc' \in {"closing", "backoff"}
          /\ (Stopped /\ ws_pc \in {"closing", "backoff"}
                /\ ws_pc' # ws_pc) => ws_pc' = "done"]_vars

C5_Witness ==
    /\ Stopped
    /\ run_pc = "done"
    /\ ws_pc = "done"
    /\ ws_end = "stopped"

\* C6: every open connection carries exactly one subscription message, naming
\* the full token list, sent before any inbound message is handled.
C6_OneFullSubscriptionFirst ==
    /\ Len(ws_sent) <= 1
    /\ (ws_pc \in {"receiving", "execute", "commit"} \/ ws_log # <<>>)
        => ws_sent = <<[type |-> "Market", assets_ids |-> ws_tokens]>>

C6_Witness ==
    /\ ws_conns = 2
    /\ ws_pc = "receiving"
    /\ ws_log # <<>>
    /\ Len(ws_tokens) = 2

\* C7: a message that does not decode is logged and dropped: no row, no
\* counter, the connection and the receive loop as they were.
C7_UndecodableMessageDropped ==
    [][(/\ ws_pc = "receiving"
        /\ running
        /\ ws_msgs' = ws_msgs + 1
        /\ ws_msg'.raw = "invalid")
       => (/\ pending' = pending
           /\ committed' = committed
           /\ calls' = calls
           /\ stats' = stats
           /\ ws_log' = Append(ws_log, "invalid_json")
           /\ ws_pc' = "receiving"
           /\ ws_sent' = ws_sent
           /\ ws_conns' = ws_conns
           /\ ws_end' = ws_end)]_vars

\* an undecodable message, then a trade persisted on the same connection
C7_Witness ==
    /\ ws_log = <<"invalid_json", "counted">>
    /\ ws_conns = 1
    /\ ws_call # 0
    /\ Row(ws_call, 1) \in committed

\* the rows the ingestor's current save call has in the store
WrittenByHandler == {r \in pending \cup committed : r.call = ws_call}
\* the ingestor has finished with ws_msg, a decoded object
Handled == ws_pc = "receiving" /\ ws_log # <<>> /\ ws_msg.raw = "object"
KnownKinds == {"book", "price_change", "last_trade_price"}

\* C8 (as claimed): a handled book message wrote only orderbook_snapshots
\* rows, a price_change only price_change_events rows, a last_trade_price
\* exactly one trade_snapshots row, any other kind no row.
C8_DispatchWritesPerKind ==
    Handled =>
        /\ (ws_msg.event_type = "book" /\ ws_call # 0)
            => TableOf(calls[ws_call].op) = "orderbook_snapshots"
        /\ (ws_msg.event_type = "price_change" /\ ws_call # 0)
            => TableOf(calls[ws_call].op) = "price_change_events"
        /\ ws_msg.event_type = "last_trade_price"
            => /\ ws_call # 0
               /\ TableOf(calls[ws_call].op) = "trade_snapshots"
               /\ WrittenByHandler = {Row(ws_call, 1)}
        /\ ws_msg.event_type \notin KnownKinds => ws_call = 0

\* C8 (amended): each decoded object takes the one path of its event_type and
\* a save call it makes is the one of its kind; a last_trade_price starts a
\* one-row trade_snapshots write exactly when the store is open and its price
\* and size convert, and when it is counted that row, still in the open
\* transaction, is committed and no other row of the call is; any other kind
\* adds one to 'other' and writes nothing.
C8_DispatchPerKind ==
    [][/\ (/\ ws_pc = "receiving"
           /\ running
           /\ ws_msgs' = ws_msgs + 1
           /\ ws_msg'.raw = "object")
          => /\ pending' = pending /\ committed' = committed
             /\ calls' # calls =>
                  /\ ws_msg'.event_type \in KnownKinds
                  /\ calls' = Append(calls, calls'[Len(calls')])
                  /\ TableOf(calls'[Len(calls')].op) =
                       (CASE ws_msg'.event_type = "book"
                               -> "orderbook_snapshots"
                          [] ws_msg'.event_type = "price_change"
                               -> "price_change_events"
                          [] OTHER -> "trade_snapshots")
                  /\ ws_msg'.event_type = "last_trade_price"
                       => calls'[Len(calls')].n = 1
             /\ ws_msg'.event_type = "last_trade_price"
                  => (calls' # calls
                        <=> (db /\ FloatOk(ws_msg'.price)
                                /\ FloatOk(ws_msg'.size)))
             /\ ws_msg'.event_type \notin KnownKinds
                  => /\ calls' = calls
                     /\ stats' = [stats EXCEPT !["other"] = @ + 1]
       /\ (/\ ws_pc = "commit"
           /\ ws_pc' = "receiving"
           /\ ws_log' = Append(ws_log, "counted")
           /\ ws_msg.event_type = "last_trade_price")
          => /\ {r \in committed' : r.call = ws_call} \subseteq {Row(ws_call, 1)}
             /\ Row(ws_call, 1) \in pending
                  => Row(ws_call, 1) \in committed']_vars

C8_Witness ==
    /\ Handled
    /\ ws_msg.event_type = "last_trade_price"
    /\ ws_log[Len(ws_log)] = "counted"
    /\ ws_call # 0
    /\ WrittenByHandler = {Row(ws_call, 1)}
    /\ stats["last_trade_price"] = 1


Numeric(x) == x.t \in {"num", "numstr"}

\* C9: decoding a price_change message with n nested changes (whose price and
\* size are numbers) yields n events in entry order, each with the message's
\* market id, timestamp and best bid/ask.
C9_OneEventPerChangeWithMessageFields ==
    (/\ ret.status # "none"
     /\ \A i \in 1..Len(arg.price_changes) :
            /\ arg.price_changes[i].price.t \in {"none", "num", "numstr"}
            /\ arg.price_changes[i].size.t \in {"none", "num", "numstr"})
    => /\ ret.status = "ok"
       /\ Len(ret.value) = Len(arg.price_changes)
       /\ \A i \in 1..Len(ret.value) :
            /\ ret.value[i].token_id = arg.price_changes[i].asset_id
            /\ ret.value[i].market_id = arg.market
            /\ ret.value[i].timestamp = ret.value[1].timestamp
            /\ arg.timestamp.t = "num"
                 => /\ ret.value[i].timestamp.ms = arg.timestamp.v
                    /\ ~ret.value[i].timestamp.now
            /\ Numeric(arg.best_bid)
                 => ret.value[i].best_bid = Some(arg.best_bid.v)
            /\ Numeric(arg.best_ask)
                 => ret.value[i].best_ask = Some(arg.best_ask.v)
            /\ arg.best_bid.t = "none" => ret.value[i].best_bid = Nothing
            /\ arg.best_ask.t = "none" => ret.value[i].best_ask = Nothing

\* the tokens of a market labelled 'yes', whatever the case
YesTokens(market) ==
    {i \in 1..Len(market.tokens) : Lower(market.tokens[i].outcome) = "yes"}
\* the claim's condition: exactly two tokens, the 'yes' one priced above 0
BinaryAndPriced(market) ==
    /\ Len(market.tokens) = 2
    /\ \E i \in YesTokens(market) : market.tokens[i].price > 0
SnapshotIds == {ret.value[i].market_id : i \in 1..Len(ret.value)}

\* C10: create_snapshots emits a MarketSnapshot for a market exactly when it
\* has two tokens and its 'yes' token is priced above 0; never for a market of
\* one token or of three or more; at most one per market.  (The markets of an
\* input have distinct ids; 'its yes token' is read for markets that have at
\* most one.)
C10_SnapshotIffBinaryAndPriced ==
    ret.status = "ok" =>
        /\ Len(ret.value) <= Len(arg)
        /\ Cardinality(SnapshotIds) = Len(ret.value)
        /\ \A k \in 1..Len(arg) :
            /\ Len(arg[k].tokens) # 2 => arg[k].market_id \notin SnapshotIds
            /\ Cardinality(YesTokens(arg[k])) <= 1
                 => (BinaryAndPriced(arg[k])
                        <=> arg[k].market_id \in SnapshotIds)

\* a priced binary market emitted next to a priced three-token market that is
\* not
C10_Witness ==
    /\ ret.status = "ok"
    /\ Len(arg) = 2
    /\ Len(arg[2].tokens) = 3
    /\ \E i \in YesTokens(arg[2]) : arg[2].tokens[i].price > 0
    /\ SnapshotIds = {arg[1].market_id}


\* ------------------------------------------------- create_outcome_snapshots
OutcomeTokens ==
    {Token(token_id, outcome, price) :
        token_id \in {"t1", "t2"}, outcome \in {"Yes", "Up"},
        price \in BuildPrices}
\* one market of every shape, alone, after a three-token market or before a
\* one-token market
OutcomeInputs ==
    LET shapes == {Market("m9", tokens) :
                     tokens \in SeqsUpTo(OutcomeTokens, MaxTokens)}
    IN  {<<m>> : m \in shapes}
        \cup {<<Triple, m>> : m \in shapes}
        \cup {<<m, Single>> : m \in shapes}

call_create_outcome_snapshots ==
    /\ ret.status = "none"
    /\ ret' = Returned(create_outcome_snapshots(arg))
    /\ UNCHANGED <<store_vars, running, run_vars, ws_vars, api_vars, arg,
                 shutdown_event>>

InitOutcomes ==
    /\ InitObject
    /\ arg \in OutcomeInputs
    /\ ret = NotCalled

SpecOutcomes == InitOutcomes /\ [][call_create_outcome_snapshots]_vars

\* the records the first k markets of the input are to contribute
RECURSIVE OutcomeRecordsBefore(_, _)
OutcomeRecordsBefore(markets, k) ==
    IF k = 0 THEN 0
    ELSE OutcomeRecordsBefore(markets, k - 1)
         + (IF Len(markets[k].tokens) >= 3 THEN Len(markets[k].tokens) ELSE 0)

\* C11: create_outcome_snapshots emits, for every market of three or more
\* tokens, one OutcomeSnapshot per token in token order with the token's
\* label, price and token_id (and the market's id), and nothing for a market
\* of fewer than three tokens.
C11_OneOutcomeSnapshotPerToken ==
    ret.status = "ok" =>
        /\ Len(ret.value) = OutcomeRecordsBefore(arg, Len(arg))
        /\ \A k \in 1..Len(arg) :
             Len(arg[k].tokens) >= 3 =>
               \A i \in 1..Len(arg[k].tokens) :
                 LET r == ret.value[OutcomeRecordsBefore(arg, k - 1) + i]
                     t == arg[k].tokens[i]
                 IN  /\ r.market_id = arg[k].market_id
                     /\ r.outcome = t.outcome
                     /\ r.price = t.price
                     /\ r.token_id = t.token_id

\* a three-token market with distinct tokens emitted, a one-token market after
\* it skipped
C11_Witness ==
    /\ ret.status = "ok"
    /\ Len(arg) = 2
    /\ Len(arg[1].tokens) = 3
    /\ Len(arg[2].tokens) = 1
    /\ arg[1].tokens[1] # arg[1].tokens[2]
    /\ arg[1].tokens[2] # arg[1].tokens[3]
    /\ Len(ret.value) = 3
    /\ ret.value[3].token_id = arg[1].tokens[3].token_id


\* ------------------------------------------ MarketSnapshot derived columns
\* Prices here are in units of 1e-7, one decimal place finer than round(x, 6)
\* keeps; 1.0 is Unit.
Unit == 10000000
\* round(x, 6): the multiples of 1e-6 nearest to x.  When x lies exactly
\* between two of them the float's binary value decides, so both are results.
Round6(x) == {r \in (x - 5)..(x + 5) : r % 10 = 0}

\* MarketSnapshot.parity_gap: round(1.0 - yes_price - no_price, 6)
parity_gap(snapshot) == Round6(Unit - snapshot.yes_price - snapshot.no_price)

\* MarketSnapshot.spread: None unless both sides are not None
spreadMutant(snapshot) ==
    IF snapshot.best_bid.some /\ snapshot.best_bid.v # 0
       /\ snapshot.best_ask.some /\ snapshot.best_ask.v # 0
    THEN {Some(r) : r \in Round6(snapshot.best_ask.v - snapshot.best_bid.v)}
    ELSE {Nothing}
spread(snapshot) ==
    IF snapshot.best_bid.some /\ snapshot.best_ask.some
    THEN {Some(r) : r \in Round6(snapshot.best_ask.v - snapshot.best_bid.v)}
    ELSE {Nothing}

\* save_snapshots: the column list of the INSERT and the parameter tuple (the
\* columns the prices and their derived values go to), bound by position
SnapshotColumns ==
    <<"market_id", "yes_price", "no_price", "parity_gap", "best_bid",
      "best_ask", "spread">>
SnapshotParams(snapshot, gap, spr) ==
    <<snapshot.market_id, snapshot.yes_price, snapshot.no_price, gap,
      snapshot.best_bid, snapshot.best_ask, spr>>
InsertedSnapshot(snapshot, gap, spr) ==
    LET params == SnapshotParams(snapshot, gap, spr)
    IN  [c \in {SnapshotColumns[i] : i \in 1..Len(SnapshotColumns)} |->
            params[CHOOSE i \in 1..Len(SnapshotColumns) :
                       SnapshotColumns[i] = c]]

SnapshotPrices == {0, 4800000, 5199996, 5200005, Unit}
SnapshotSides == {Nothing, Some(0), Some(4800004), Some(5200000)}
SnapshotInputs ==
    {[market_id |-> "m1", yes_price |-> y, no_price |-> n,
      best_bid |-> b, best_ask |-> a] :
        y \in SnapshotPrices, n \in SnapshotPrices,
        b \in SnapshotSides, a \in SnapshotSides}

\* one snapshot's row as save_snapshots inserts it
call_save_snapshot_row ==
    /\ ret.status = "none"
    /\ \E gap \in parity_gap(arg) : \E spr \in spread(arg) :
         ret' = Returned(InsertedSnapshot(arg, gap, spr))
    /\ UNCHANGED <<store_vars, running, run_vars, ws_vars, api_vars, arg,
                 shutdown_event>>

InitSnapshot ==
    /\ InitObject
    /\ arg \in SnapshotInputs
    /\ ret = NotCalled

SpecSnapshot == InitSnapshot /\ [][call_save_snapshot_row]_vars

\* x is y rounded to 6 places: a multiple of 1e-6 at most half of 1e-6 away
IsRounded6(x, y) == x % 10 = 0 /\ x - y <= 5 /\ y - x <= 5

\* C12: the persisted parity_gap column is 1 - yes_price - no_price rounded
\* to 6 places; the persisted spread column is best_ask - best_bid rounded to
\* 6 places when both sides are present and absent when either is missing.
C12_DerivedColumnsPersisted ==
    ret.status = "ok" =>
        /\ IsRounded6(ret.value.parity_gap,
                      Unit - arg.yes_price - arg.no_price)
        /\ (arg.best_bid.some /\ arg.best_ask.some)
             => /\ ret.value.spread.some
                /\ IsRounded6(ret.value.spread.v,
                              arg.best_ask.v - arg.best_bid.v)
        /\ (~arg.best_bid.some \/ ~arg.best_ask.some)
             => ~ret.value.spread.some
        /\ ret.value.yes_price = arg.yes_price
        /\ ret.value.no_price = arg.no_price
        /\ ret.value.best_bid = arg.best_bid
        /\ ret.value.best_ask = arg.best_ask

\* a row whose gap, negative, was rounded and whose spread, over a bid of 0,
\* is present and was rounded
C12_Witness ==
    /\ ret.status = "ok"
    /\ arg.yes_price = 5200005
    /\ arg.no_price = 4800000
    /\ ret.value.parity_gap = -10
    /\ arg.best_bid = Some(0)
    /\ arg.best_ask = Some(4800004)
    /\ ret.value.spread = Some(4800000)


\* ------------------------------------------------------------ run() alone
\* The recording loop with the store opened, closed and stop() called at any
\* time: a cycle can fail on an unopened store, on a failing INSERT and on a
\* handle closed under it.
NextRun ==
    \/ init_db
    \/ close
    \/ stop
    \/ run
    \/ run_fetch
    \/ run_market_batch
    \/ run_outcome_batch
    \/ run_execute
    \/ run_execute_fail
    \/ run_commit
    \/ run_sleep

SpecRun == Init /\ [][NextRun]_vars

\* record_once raises in this step: a non-empty batch meets an unopened
\* store, or the save call in progress fails
RecordOnceRaises ==
    \/ /\ run_pc = "market_batch"
       /\ run_pc' # "market_batch"
       /\ create_snapshots(run_markets) # <<>>
       /\ ~db
    \/ /\ run_pc = "outcome_batch"
       /\ run_pc' # "outcome_batch"
       /\ create_outcome_snapshots(run_markets) # <<>>
       /\ ~db
    \/ /\ run_pc \in {"execute", "commit"}
       /\ calls'[run_call].status = "failed"

\* C13: a step in which record_once raises takes run() to its sleep, never
\* out of the loop; run() leaves the loop only from the sleep and only with
\* the flag false; from the sleep with the flag true it starts another cycle.
C13_RecordErrorNeverFatal ==
    [][/\ RecordOnceRaises => run_pc' = "sleep"
       /\ (run_pc # "done" /\ run_pc' = "done")
            => (run_pc = "sleep" /\ ~running)
       /\ (run_pc = "sleep" /\ run_pc' # "sleep" /\ running)
            => run_pc' = "fetch"]_vars

\* after a failed save call, with the flag still true, the next cycle has
\* started
C13_Witness ==
    /\ run_pc = "fetch"
    /\ running
    /\ run_call # 0
    /\ calls[run_call].status = "failed"


\* ------------------------------------------------------- the catalog fetcher
\* _parse_market, the token loop: one Token per outcome label; position i
\* takes float(prices[i]) when the price array reaches it, else 0.0, and
\* token_ids[i] when the identifier array reaches it, else ""
tokensMutant(outcomes, prices, token_ids) ==
    [i \in 1..Len(outcomes) |->
        Token(IF i <= Len(token_ids) THEN token_ids[i] ELSE "",
              outcomes[i],
              IF i < Len(prices) THEN Float(prices[i]) ELSE 0)]
tokens(outcomes, prices, token_ids) ==
    [i \in 1..Len(outcomes) |->
        Token(IF i <= Len(token_ids) THEN token_ids[i] ELSE "",
              outcomes[i],
              IF i <= Len(prices) THEN Float(prices[i]) ELSE 0)]
\* float(prices[i]) raises on a price that is no number
TokensRaise(outcomes, prices) ==
    \E i \in 1..Len(outcomes) : i <= Len(prices) /\ ~FloatOk(prices[i])

\* One element of the response body: a dict with the fields _parse_market
\* reads, or something that is no dict.
Item(shape, id, volume, outcomes, prices, token_ids) ==
    [shape |-> shape, id |-> id, volume |-> volume, outcomes |-> outcomes,
     prices |-> prices, token_ids |-> token_ids]

\* _parse_market raises: data.get on a non-dict, float() of the volume or of
\* a price
ParseRaises(item) ==
    \/ item.shape # "dict"
    \/ TokensRaise(item.outcomes, item.prices)
    \/ ~FloatOk(OrZero(item.volume))
_parse_market(item) ==
    Market(item.id, tokens(item.outcomes, item.prices, item.token_ids))

\* the loop over the body: `try: markets.append(self._parse_market(item))`,
\* `except Exception: continue`
RECURSIVE ParsedMutant(_)
ParsedMutant(items) ==
    IF items = <<>> THEN <<>>
    ELSE IF ParseRaises(Head(items)) THEN <<>>
    ELSE <<_parse_market(Head(items))>> \o ParsedMutant(Tail(items))
RECURSIVE Parsed(_)
Parsed(items) ==
    IF items = <<>> THEN <<>>
    ELSE IF ParseRaises(Head(items)) THEN Parsed(Tail(items))
    ELSE <<_parse_market(Head(items))>> \o Parsed(Tail(items))

\* GammaClient.fetch_markets on one exchange with the server: the request
\* fails in transport, or a response arrives with a status and a body that
\* is a JSON array or is not JSON at all
Response(kind, status_code, body, items) ==
    [kind |-> kind, status_code |-> status_code, body |-> body,
     items |-> items]
fetch_markets(response) ==
    IF response.kind = "transport_error" THEN Returned(<<>>)
    ELSE IF response.status_code # 200 THEN Returned(<<>>)
    ELSE IF response.body # "array" THEN Returned(<<>>)
    ELSE Returned(Parsed(response.items))

\* items of one response body
MaxItems == 3
ItemSamples ==
    {Item("dict", "m1", NumStr(100), <<"Yes", "No">>,
          <<NumStr(600), NumStr(400)>>, <<"t1", "t2">>),
     Item("dict", "m2", Absent, <<"Up">>, <<>>, <<>>),
     Item("dict", "m3", BadStr, <<"Yes", "No">>,
          <<NumStr(600), NumStr(400)>>, <<"t1", "t2">>),
     Item("dict", "m4", Num(5), <<"Yes", "No">>, <<BadStr>>, <<"t1">>),
     Item("str", "", Absent, <<>>, <<>>, <<>>)}
Responses ==
    {Response("transport_error", 0, "none", <<>>)}
    \cup {Response("response", code, "invalid", <<>>) : code \in {200, 500}}
    \cup {Response("response", code, "array", items) :
            code \in {200, 404, 500}, items \in SeqsUpTo(ItemSamples, MaxItems)}

call_fetch_markets ==
    /\ ret.status = "none"
    /\ ret' = fetch_markets(arg)
    /\ UNCHANGED <<store_vars, running, run_vars, ws_vars, api_vars, arg,
                 shutdown_event>>

InitFetch ==
    /\ InitObject
    /\ arg \in Responses
    /\ ret = NotCalled

SpecFetch == InitFetch /\ [][call_fetch_markets]_vars

\* the positions of the items of a body that parse: a dict whose volume and
\* reachable prices are numbers
Parses(item) ==
    /\ item.shape = "dict"
    /\ item.volume.t \in {"none", "num", "numstr"}
    /\ \A i \in 1..Len(item.outcomes) :
         i <= Len(item.prices) => item.prices[i].t \in {"num", "numstr"}
ParsingPositions(items) == {i \in 1..Len(items) : Parses(items[i])}

\* C14: fetch_markets always returns; with a transport error or a status
\* other than 200 it returns the empty sequence; with status 200 it returns
\* one market per item that parses, in the order of the body, whatever the
\* items between them.
C14_FetchNeverFailsSkipsBadItems ==
    ret.status # "none" =>
        /\ ret.status = "ok"
        /\ (arg.kind = "transport_error" \/ arg.status_code # 200)
             => ret.value = <<>>
        /\ (arg.kind = "response" /\ arg.status_code = 200)
             => LET pos == ParsingPositions(arg.items)
                IN  /\ Len(ret.value) = Cardinality(pos)
                    /\ \A i \in pos :
                         ret.value[Cardinality({j \in pos : j <= i})].market_id
                            = arg.items[i].id

\* a good item between two malformed ones
C14_Witness ==
    /\ ret.status = "ok"
    /\ arg.kind = "response"
    /\ arg.status_code = 200
    /\ Len(arg.items) = 3
    /\ ~Parses(arg.items[1])
    /\ Parses(arg.items[2])
    /\ ~Parses(arg.items[3])
    /\ Len(ret.value) = 1
    /\ ret.value[1].market_id = arg.items[2].id


\* ------------------------------------------------------------- append-only
\* The store under a direct caller of the save operations and the recording
\* loop, opened and closed at any time.
NextAppend == NextStore \/ NextRun

SpecAppend == Init /\ [][NextAppend]_vars

\* C15: a committed row stays committed: no step of init, close, a save call
\* or a recording cycle removes a row from a table.  (A row is its save call
\* and its position in the batch; no statement of the program rewrites one.)
C15_CommittedRowsStay == [][committed \subseteq committed']_vars

\* rows of two save calls (the caller's and the loop's) committed, the store
\* closed after them
C15_Witness ==
    /\ \E r1 \in committed : \E r2 \in committed :
         calls[r1.call].by = "api" /\ calls[r2.call].by = "run"
    /\ ~db
    /\ run_pc = "done"


\* ------------------------------------------------- _parse_market: tokens
TokenArrays(outcomes, prices, token_ids) ==
    [outcomes |-> outcomes, prices |-> prices, token_ids |-> token_ids]
\* the three arrays of one item, of every length up to MaxTokens each
TokenArrayInputs ==
    {TokenArrays(outcomes, prices, token_ids) :
        outcomes \in SeqsUpTo({"Yes", "No"}, MaxTokens),
        prices \in SeqsUpTo({NumStr(600), Num(400), BadStr}, MaxTokens),
        token_ids \in SeqsUpTo({"t1", "t2"}, MaxTokens)}

call_tokens ==
    /\ ret.status = "none"
    /\ ret' = IF TokensRaise(arg.outcomes, arg.prices)
              THEN Raised
              ELSE Returned(tokens(arg.outcomes, arg.prices, arg.token_ids))
    /\ UNCHANGED <<store_vars, running, run_vars, ws_vars, api_vars, arg,
                 shutdown_event>>

InitTokens ==
    /\ InitObject
    /\ arg \in TokenArrayInputs
    /\ ret = NotCalled

SpecTokens == InitTokens /\ [][call_tokens]_vars

\* C16: from arrays of any lengths whose prices are numbers, building the
\* tokens does not raise and gives one Token per outcome label, in order, with
\* the price at its position or 0.0 past the end of the prices and the
\* identifier at its position or "" past the end of the identifiers.
C16_OneTokenPerOutcomeWithDefaults ==
    (/\ ret.status # "none"
     /\ \A i \in 1..Len(arg.prices) : arg.prices[i].t \in {"num", "numstr"})
    => /\ ret.status = "ok"
       /\ Len(ret.value) = Len(arg.outcomes)
       /\ \A i \in 1..Len(arg.outcomes) :
            /\ ret.value[i].outcome = arg.outcomes[i]
            /\ i <= Len(arg.prices) => ret.value[i].price = arg.prices[i].v
            /\ i > Len(arg.prices) => ret.value[i].price = 0
            /\ i <= Len(arg.token_ids)
                 => ret.value[i].token_id = arg.token_ids[i]
            /\ i > Len(arg.token_ids) => ret.value[i].token_id = ""

\* three labels, one price, two identifiers
C16_Witness ==
    /\ ret.status = "ok"
    /\ Len(arg.outcomes) = 3
    /\ Len(arg.prices) = 1
    /\ Len(arg.token_ids) = 2
    /\ ret.value[1].price = 600
    /\ ret.value[2].price = 0
    /\ ret.value[3].token_id = ""


\* ------------------------------------------------------- _parse_ws_timestamp
\* instants (epoch milliseconds) a timestamp field may name
MaxInstant == 24
TimestampInputs ==
    {Absent, EmptyStr, BadStr}
    \cup {Num(x) : x \in 0..MaxInstant}
    \cup {NumStr(x) : x \in 0..MaxInstant}
    \cup {Iso(x) : x \in 0..MaxInstant}

call_parse_ws_timestamp ==
    /\ ret.status = "none"
    /\ ret' = Returned(_parse_ws_timestamp(arg))
    /\ UNCHANGED <<store_vars, running, run_vars, ws_vars, api_vars, arg,
                 shutdown_event>>

InitTimestamp ==
    /\ InitObject
    /\ arg \in TimestampInputs
    /\ ret = NotCalled

SpecTimestamp == InitTimestamp /\ [][call_parse_ws_timestamp]_vars

\* C17: decoding maps an absent value to the current time, epoch
\* milliseconds to that instant, an ISO-8601 string with 'Z' to its instant in
\* the very form the numeric path gives for the same instant, and any other
\* shape to the current time.
C17_TimestampDecodedToOneRepresentation ==
    ret.status = "ok" =>
        /\ arg.t = "none" => ret.value.now
        /\ arg.t = "num" => (~ret.value.now /\ ret.value.ms = arg.v)
        /\ arg.t = "iso"
             => /\ ~ret.value.now
                /\ ret.value.ms = arg.v
                /\ ret.value = _parse_ws_timestamp(Num(arg.v))
        /\ arg.t \notin {"none", "num", "iso"} => ret.value.now


\* ------------------------------------------------ create_orderbook_snapshots
OrderBookSnapshot(market_id, token_id, side, level, price, size) ==
    [market_id |-> market_id, token_id |-> token_id, side |-> side,
     level |-> level, price |-> price, size |-> size]

\* `if levels > 0: bids = bids[:levels]`: the slice keeps the front of the
\* array, all of it when it is shorter
SlicedMutant(array, levels) ==
    IF levels >= 0
    THEN SubSeq(array, 1, IF levels < Len(array) THEN levels ELSE Len(array))
    ELSE array
Sliced(array, levels) ==
    IF levels > 0
    THEN SubSeq(array, 1, IF levels < Len(array) THEN levels ELSE Len(array))
    ELSE array

\* `for level, bid in enumerate(bids)`: level counts from 0
SideSnapshots(market_id, token_id, side, array) ==
    [i \in 1..Len(array) |->
        OrderBookSnapshot(market_id, token_id, side, i - 1,
                          Float(array[i].price), Float(array[i].size))]

create_orderbook_snapshots(market_id, token_id, book_data, levels) ==
    SideSnapshots(market_id, token_id, "bid", Sliced(book_data.bids, levels))
    \o SideSnapshots(market_id, token_id, "ask",
                     Sliced(book_data.asks, levels))

\* supplied levels per side, and the depths asked for
MaxLevels == 8
MaxDepth == 6
\* a side of n levels, each with its own price and size
BookSide(n, best, step) ==
    [i \in 1..n |-> Level(NumStr(best + (i - 1) * step), NumStr(10 * i))]
BookInputs ==
    {[market_id |-> "m1", token_id |-> "t1",
      book_data |-> [bids |-> BookSide(b, 480, -10),
                     asks |-> BookSide(a, 520, 10)],
      levels |-> d] :
        b \in 0..MaxLevels, a \in 0..MaxLevels, d \in 0..MaxDepth}

call_create_orderbook_snapshots ==
    /\ ret.status = "none"
    /\ ret' = Returned(create_orderbook_snapshots(arg.market_id, arg.token_id,
                                                  arg.book_data, arg.levels))
    /\ UNCHANGED <<store_vars, running, run_vars, ws_vars, api_vars, arg,
                 shutdown_event>>

InitBook ==
    /\ InitObject
    /\ arg \in BookInputs
    /\ ret = NotCalled

SpecBook == InitBook /\ [][call_create_orderbook_snapshots]_vars

\* the records a side of n supplied levels is to give at depth d
Kept(n, d) == IF d > 0 /\ d < n THEN d ELSE n

\* C18: with depth d > 0 each side gives min(d, n) records, at levels
\* 0..min(d, n)-1, taken from the front of its n supplied levels; with depth 0
\* each side gives a record for every supplied level.  The bid records come
\* first.
C18_DepthSlicesEachSide ==
    ret.status = "ok" =>
        LET nb == Kept(Len(arg.book_data.bids), arg.levels)
            na == Kept(Len(arg.book_data.asks), arg.levels)
        IN  /\ Len(ret.value) = nb + na
            /\ \A i \in 1..nb :
                 /\ ret.value[i].side = "bid"
                 /\ ret.value[i].level = i - 1
                 /\ ret.value[i].price = arg.book_data.bids[i].price.v
                 /\ ret.value[i].size = arg.book_data.bids[i].size.v
            /\ \A i \in 1..na :
                 /\ ret.value[nb + i].side = "ask"
                 /\ ret.value[nb + i].level = i - 1
                 /\ ret.value[nb + i].price = arg.book_data.asks[i].price.v
                 /\ ret.value[nb + i].size = arg.book_data.asks[i].size.v

\* depth 5, 8 bids and 3 asks: 5 bid records at levels 0-4, 3 ask records
C18_Witness ==
    /\ ret.status = "ok"
    /\ arg.levels = 5
    /\ Len(arg.book_data.bids) = 8
    /\ Len(arg.book_data.asks) = 3
    /\ Len(ret.value) = 8
    /\ ret.value[5].side = "bid"
    /\ ret.value[5].level = 4
    /\ ret.value[5].price = 440
    /\ ret.value[6].side = "ask"

\* ---------------------------------------------------------------- record_once
\* the sizes the two batches of a cycle over `markets` are to have
MarketCount(markets) ==
    Cardinality({k \in 1..Len(markets) : BinaryAndPriced(markets[k])})
OutcomeCount(markets) == OutcomeRecordsBefore(markets, Len(markets))
RunCall(op, n) == [op |-> op, n |-> n, by |-> "run", status |-> "active"]

\* C19: a cycle saves its market snapshots first and its outcome snapshots
\* second, each in one save call of the batch's size; for an empty batch it
\* makes no save call and leaves the store as it is, open or not; it returns
\* the number of market snapshots built, also when both batches are empty.
C19_RecordOncePersistsNonEmptyBatches ==
    /\ [](run_ret.status = "ok" => run_ret.value = MarketCount(run_markets))
    /\ [][/\ (run_pc = "market_batch" /\ run_pc' # "market_batch")
               => /\ pending' = pending /\ committed' = committed
                  /\ IF MarketCount(run_markets) = 0
                     THEN calls' = calls /\ run_pc' = "outcome_batch"
                     ELSE IF db
                     THEN /\ calls' = Append(calls,
                               RunCall("save_snapshots",
                                       MarketCount(run_markets)))
                          /\ run_pc' = "execute"
                     ELSE calls' = calls /\ run_ret'.status = "raise"
          /\ (run_pc = "outcome_batch" /\ run_pc' # "outcome_batch")
               => /\ pending' = pending /\ committed' = committed
                  /\ IF OutcomeCount(run_markets) = 0
                     THEN /\ calls' = calls
                          /\ run_ret' = [status |-> "ok",
                                         value |-> MarketCount(run_markets)]
                     ELSE IF db
                     THEN /\ calls' = Append(calls,
                               RunCall("save_outcome_snapshots",
                                       OutcomeCount(run_markets)))
                          /\ run_pc' = "execute"
                     ELSE calls' = calls /\ run_ret'.status = "raise"
          /\ (run_pc = "fetch" /\ run_pc' # "fetch")
               => (run_pc' = "market_batch" /\ UNCHANGED store_vars)
          /\ (run_pc # "outcome_batch" /\ run_pc' = "outcome_batch")
               => \/ run_pc = "market_batch"
                  \/ /\ run_pc = "commit"
                     /\ calls'[run_call].op = "save_snapshots"
                     /\ calls'[run_call].status = "ok"
          /\ (run_pc = "commit" /\ run_ret'.status = "ok")
               => /\ calls'[run_call].op = "save_outcome_snapshots"
                  /\ calls'[run_call].status = "ok"]_vars

\* a cycle over a binary and a three-token market has returned 1, its market
\* snapshot saved by the first call and its three outcome snapshots by the
\* second
C19_Witness ==
    /\ run_ret = [status |-> "ok", value |-> 1]
    /\ run_markets = <<Binary, Triple>>
    /\ Len(calls) = 2
    /\ calls[1] = [op |-> "save_snapshots", n |-> 1, by |-> "run",
                   status |-> "ok"]
    /\ calls[2] = [op |-> "save_outcome_snapshots", n |-> 3, by |-> "run",
                   status |-> "ok"]
    /\ committed = {Row(1, 1), Row(2, 1), Row(2, 2), Row(2, 3)}


\* ------------------------------------------------- who sets the running flag
\* C20: no step of the ingestor changes the running flag, only run() sets it;
\* connect_market_stream entered with the flag false returns at once, with no
\* connection attempt and nothing sent, and stays returned; so an ingestor
\* that has attempted a connection was started after run() set the flag.
C20_IngestorNeverSetsFlag ==
    /\ [](ws_conns > 0 => run_pc # "idle")
    /\ [][/\ running' # running => UNCHANGED ws_vars
          /\ (~running /\ running')
               => (run_pc = "idle" /\ run_pc' # "idle")
          /\ (ws_pc = "idle" /\ ws_pc' # "idle")
               => IF running
                  THEN ws_pc' = "connecting"
                  ELSE /\ ws_pc' = "done"
                       /\ ws_conns' = 0
                       /\ ws_sent' = <<>>
          /\ ws_pc = "done" => ws_pc' = "done"]_vars

\* the ingestor, started before run(), has returned without connecting while
\* run() records with the flag true
C20_Witness ==
    /\ ws_pc = "done"
    /\ ws_conns = 0
    /\ ws_sent = <<>>
    /\ ws_tokens # <<>>
    /\ running
    /\ run_pc = "fetch"


\* ------------------------------------------- the ingestor without a store
\* The ingestor on one connection while the store is opened and closed from
\* outside at any time; run() is what sets the flag.
NextStoreless ==
    \/ init_db
    \/ close
    \/ run
    \/ connect_market_stream
    \/ ws_connected
    \/ ws_subscribed
    \/ ws_message
    \/ ws_execute
    \/ ws_execute_fail
    \/ ws_commit

SpecStoreless == Init /\ [][NextStoreless]_vars

\* the message taken by this step is a book, price_change or last_trade_price
\* object whose fields all convert
WellFormed(m) ==
    /\ m.raw = "object"
    /\ m.event_type \in {"book", "price_change", "last_trade_price"}
    /\ m.event_type = "book" => ~BookRaises(m)
    /\ m.event_type = "price_change" => handle_price_change(m).status = "ok"
    /\ m.event_type = "last_trade_price" => ~TradeRaises(m)

\* what the branch adds to its counter: the number of events for a
\* price_change, one for the other kinds
CountOf(m) ==
    IF m.event_type = "price_change"
    THEN Len(handle_price_change(m).value) ELSE 1

\* C21: a well-formed book, price_change or last_trade_price message received
\* while self._db is None (never opened, or closed) moves its counter, starts
\* no save call, changes no row, is logged as counted and not as an error, and
\* leaves the connection receiving; a streaming save call only ever starts
\* with the store open, so no streaming call ends in the precondition error.
C21_MissingStoreIsNoStreamError ==
    [][/\ (/\ ws_pc = "receiving"
           /\ ws_msgs' = ws_msgs + 1
           /\ running
           /\ ~db
           /\ WellFormed(ws_msg'))
          => /\ stats' = [stats EXCEPT ![ws_msg'.event_type] =
                                          @ + CountOf(ws_msg')]
             /\ calls' = calls
             /\ pending' = pending
             /\ committed' = committed
             /\ ws_log' = Append(ws_log, "counted")
             /\ ws_pc' = "receiving"
             /\ ws_conns' = ws_conns
       /\ (Len(calls') > Len(calls) /\ calls'[Len(calls')].by = "ws")
          => db]_vars

\* a trade was saved with the store open, the store was closed, and the next
\* trade on the same connection was counted without a save call
C21_Witness ==
    /\ ~db
    /\ committed # {}
    /\ ws_pc = "receiving"
    /\ ws_conns = 1
    /\ ws_msgs = 2
    /\ Len(calls) = 1
    /\ calls[1].status = "ok"
    /\ ws_msg.event_type = "last_trade_price"
    /\ ws_log = <<"counted", "counted">>
    /\ stats["last_trade_price"] = 2


\* ------------------------------------------------- signals and the flag
\* The script in streaming mode: the store is opened, both loops are started
\* and the signal handler may run at any time, before or after run() has
\* started executing.  The ingestor holds connections that the peer may
\* close; what it does with messages is left to the streaming
\* specifications.
NextSignal ==
    \/ init_db
    \/ handle_signal
    \/ run
    \/ run_fetch
    \/ run_market_batch
    \/ run_outcome_batch
    \/ run_execute
    \/ run_execute_fail
    \/ run_commit
    \/ run_sleep
    \/ connect_market_stream
    \/ ws_connected
    \/ ws_subscribed
    \/ ws_closed_ok
    \/ ws_exit

\* The event loop runs a coroutine that can run; a fetch, a statement and a
\* sleep end.
FairSignal ==
    /\ WF_vars(run_fetch)
    /\ WF_vars(run_market_batch)
    /\ WF_vars(run_outcome_batch)
    /\ WF_vars(run_execute \/ run_execute_fail)
    /\ WF_vars(run_commit)
    /\ WF_vars(run_sleep)
    /\ WF_vars(ws_exit)

SpecSignal == Init /\ [][NextSignal]_vars /\ FairSignal


\* C22: run() sets the flag on entry whatever it was, so a signal handled
\* before run() has started executing leaves run() running; the flag goes
\* from true to false only by a stop(), run() returns only at a loop check
\* that finds the flag false, the ingestor returns only with the flag false,
\* and once the flag is false with run() started, run() returns.
C22_StopBeforeRunIsOverwritten ==
    /\ [][/\ (run_pc = "idle" /\ run_pc' # "idle")
               => (running' /\ run_pc' = "fetch")
          /\ (running /\ ~running')
               => (shutdown_event' /\ UNCHANGED <<store_vars, run_vars,
                                                  ws_vars>>)
          /\ (run_pc # "done" /\ run_pc' = "done")
               => (~running /\ shutdown_event /\ run_pc = "sleep")
          /\ (ws_pc # "done" /\ ws_pc' = "done") => ~running]_vars
    /\ (~running /\ run_pc # "idle") ~> (run_pc = "done")

\* a signal was handled before run() started; run() has since recorded a
\* cycle with the flag true and goes on
C22_Witness ==
    /\ shutdown_event
    /\ running
    /\ run_pc = "sleep"
    /\ run_ret.status = "ok"
    /\ committed # {}


====
